---- MODULE Spec2Model ----
(***************************************************************************)
(* The email intelligence sync pipeline of personal-ai-assistant/backend:  *)
(* the response parser and category analyzer (core/claude_integration/     *)
(* email_intelligence.py), the orchestrator and merger (services/          *)
(* intelligence_service.py), the persisted records (models/database/       *)
(* insights_storage.py) and the status tracker of main.py.                 *)
(***************************************************************************)
EXTENDS Integers, Sequences, FiniteSets, TLC

(***************************************************************************)
(* JSON values, as json.loads produces them.  A value is a tagged record:  *)
(* a number/true/false/null ("num": none of them is iterable or has keys), *)
(* a string, a list or an object (a dict).                                 *)
(***************************************************************************)
JNum == [k |-> "num"]
JStr(s) == [k |-> "str", s |-> s]
JList(items) == [k |-> "list", items |-> items]
JObj(m) == [k |-> "obj", m |-> m]
EmptyMap == [x \in {} |-> JNum]
Put(m, key, v) == [x \in (DOMAIN m) \cup {key} |-> IF x = key THEN v ELSE m[x]]

(***************************************************************************)
(* A response text is a sequence of lexemes.  The punctuation, the literal *)
(* "1" (any number, true, false or null), the prose word "x" and the two   *)
(* code fence markers (three backquotes followed by json, and three        *)
(* backquotes) are themselves; every other lexeme is a quoted JSON string  *)
(* with that content.                                                      *)
(***************************************************************************)
FenceJson == "fence-json"
Fence == "fence"
Punct == {"{", "}", "[", "]", ":", ",", "1", "x", FenceJson, Fence}

ParseFail == [ok |-> FALSE, val |-> JNum, rest |-> <<>>]

RECURSIVE ParseValue(_), ParseElems(_, _, _), ParseMembers(_, _, _)
ParseValue(t) ==
    IF t = <<>> THEN ParseFail
    ELSE LET h == Head(t)
             r == Tail(t)
         IN  CASE h = "1" -> [ok |-> TRUE, val |-> JNum, rest |-> r]
               [] h = "[" -> ParseElems(r, <<>>, TRUE)
               [] h = "{" -> ParseMembers(r, EmptyMap, TRUE)
               [] h \in Punct \ {"1", "[", "{"} -> ParseFail
               [] OTHER -> [ok |-> TRUE, val |-> JStr(h), rest |-> r]

ParseElems(t, acc, first) ==
    IF t = <<>> THEN ParseFail
    ELSE IF first /\ Head(t) = "]"
    THEN [ok |-> TRUE, val |-> JList(acc), rest |-> Tail(t)]
    ELSE LET v == ParseValue(t)
         IN  IF ~v.ok \/ v.rest = <<>> THEN ParseFail
             ELSE IF Head(v.rest) = ","
             THEN ParseElems(Tail(v.rest), Append(acc, v.val), FALSE)
             ELSE IF Head(v.rest) = "]"
             THEN [ok |-> TRUE, val |-> JList(Append(acc, v.val)), rest |-> Tail(v.rest)]
             ELSE ParseFail

ParseMembers(t, acc, first) ==
    IF t = <<>> THEN ParseFail
    ELSE IF first /\ Head(t) = "}"
    THEN [ok |-> TRUE, val |-> JObj(acc), rest |-> Tail(t)]
    ELSE IF Head(t) \in Punct \/ Len(t) < 3 \/ t[2] # ":" THEN ParseFail
    ELSE LET v == ParseValue(SubSeq(t, 3, Len(t)))
         IN  IF ~v.ok \/ v.rest = <<>> THEN ParseFail
             ELSE IF Head(v.rest) = ","
             THEN ParseMembers(Tail(v.rest), Put(acc, Head(t), v.val), FALSE)
             ELSE IF Head(v.rest) = "}"
             THEN [ok |-> TRUE, val |-> JObj(Put(acc, Head(t), v.val)), rest |-> Tail(v.rest)]
             ELSE ParseFail

\* json.loads: the whole text must be one value; anything else is a JSONDecodeError.
json_loads(t) ==
    LET v == ParseValue(t)
    IN  IF v.ok /\ v.rest = <<>> THEN [ok |-> TRUE, val |-> v.val]
        ELSE [ok |-> FALSE, val |-> JNum]

\* json.dumps, the serializer the tests feed the analyzer with.
RECURSIVE json_dumps(_), DumpElems(_), DumpMembers(_, _)
json_dumps(v) ==
    CASE v.k = "num" -> <<"1">>
      [] v.k = "str" -> <<v.s>>
      [] v.k = "list" -> <<"[">> \o DumpElems(v.items) \o <<"]">>
      [] v.k = "obj" -> <<"{">> \o DumpMembers(v.m, DOMAIN v.m) \o <<"}">>

DumpElems(items) ==
    IF items = <<>> THEN <<>>
    ELSE json_dumps(Head(items))
         \o (IF Tail(items) = <<>> THEN <<>> ELSE <<",">> \o DumpElems(Tail(items)))

DumpMembers(m, keys) ==
    IF keys = {} THEN <<>>
    ELSE LET key == CHOOSE x \in keys : TRUE
             rest == keys \ {key}
         IN  <<key, ":">> \o json_dumps(m[key])
             \o (IF rest = {} THEN <<>> ELSE <<",">> \o DumpMembers(m, rest))

(***************************************************************************)
(* The five categories: the key each analysis call expects and the default *)
(* returned for it.                                                        *)
(***************************************************************************)
ExpectedKeys ==
    {"key_relationships", "active_projects", "communication_patterns",
     "action_items", "important_information"}

DefaultValue(expected_key) ==
    IF expected_key # "communication_patterns" THEN JList(<<>>) ELSE JObj(EmptyMap)

DefaultResponse(expected_key) ==
    JObj(Put(EmptyMap, expected_key, DefaultValue(expected_key)))

\* str.strip(chars) of the fenced response: the markers made only of the
\* stripped characters are removed from both ends, up to the first white space.
StripEnds(t, markers) ==
    LET a == IF t # <<>> /\ Head(t) \in markers THEN Tail(t) ELSE t
    IN  IF a # <<>> /\ a[Len(a)] \in markers THEN SubSeq(a, 1, Len(a) - 1) ELSE a

CleanResponse(t) ==
    IF t # <<>> /\ Head(t) = FenceJson THEN StripEnds(t, {FenceJson, Fence})
    ELSE IF t # <<>> /\ Head(t) = Fence THEN StripEnds(t, {Fence})
    ELSE t

\* re.search of a brace, anything, a brace (DOTALL): greedy, so the match runs
\* from the first opening brace to the last closing brace.
re_search(t) ==
    LET opens == {i \in 1..Len(t) : t[i] = "{"}
        first == CHOOSE i \in opens : \A j \in opens : i <= j
        closes == {j \in 1..Len(t) : t[j] = "}" /\ j > first}
        last == CHOOSE j \in closes : \A i \in closes : i <= j
    IN  IF opens = {} \/ closes = {} THEN [found |-> FALSE, text |-> <<>>]
        ELSE [found |-> TRUE, text |-> SubSeq(t, first, last)]

Returns(v) == [exc |-> "none", ret |-> v]
Raises(e) == [exc |-> e, ret |-> JNum]

\* A validation that resets the expected key whatever the response holds.
ValidateExpectedKeyReset(v, expected_key) ==
    Returns(DefaultResponse(expected_key))

\* A validation that takes a missing expected key for a failure.
ValidateExpectedKeyStrict(v, expected_key) ==
    IF v.k = "obj" /\ expected_key \in DOMAIN v.m THEN Returns(v) ELSE Raises("KeyError")

\* "expected_key not in structured_response", then the item assignment.
ValidateExpectedKey(v, expected_key) ==
    CASE v.k = "obj" ->
            IF expected_key \in DOMAIN v.m THEN Returns(v)
            ELSE Returns(JObj(Put(v.m, expected_key, DefaultValue(expected_key))))
      [] v.k = "list" ->
            IF \E i \in 1..Len(v.items) : v.items[i] = JStr(expected_key)
            THEN Returns(v) ELSE Raises("TypeError")
      [] v.k = "str" ->
            IF v.s = expected_key THEN Returns(v) ELSE Raises("TypeError")
      [] v.k = "num" -> Raises("TypeError")

\* The inner try block of _get_structured_response.
ParseBody(text, expected_key) ==
    LET cleaned == CleanResponse(text)
        whole == json_loads(cleaned)
        json_match == re_search(cleaned)
        inner == json_loads(json_match.text)
    IN  IF whole.ok THEN ValidateExpectedKey(whole.val, expected_key)
        ELSE IF json_match.found
        THEN IF inner.ok THEN ValidateExpectedKey(inner.val, expected_key)
             ELSE Raises("JSONDecodeError")
        ELSE Returns(DefaultResponse(expected_key))

\* An LLM call either raises (network, timeout) or answers with a text.
ServiceError == [raised |-> TRUE, text |-> <<>>]
Answer(t) == [raised |-> FALSE, text |-> t]

\* A parser without the except clause of the inner try block.
PropagateProcessingError(body, expected_key) == body

HandleProcessingError(body, expected_key) ==
    IF body.exc # "none" THEN Returns(DefaultResponse(expected_key)) ELSE body

\* A parser without the except clause around the LLM call.
get_structured_response_unguarded(response, expected_key) ==
    IF response.raised THEN Raises("APIConnectionError")
    ELSE HandleProcessingError(ParseBody(response.text, expected_key), expected_key)

get_structured_response(response, expected_key) ==
    IF response.raised THEN Returns(DefaultResponse(expected_key))
    ELSE HandleProcessingError(ParseBody(response.text, expected_key), expected_key)


(***************************************************************************)
(* The category analyzer: analyze_recent_emails.                           *)
(***************************************************************************)
NoTime == -1

\* dict.get(key): the value, or None when the key is absent.
JNone == [k |-> "none"]
Get(obj, key) == IF key \in DOMAIN obj.m THEN obj.m[key] ELSE JNone
GetOr(obj, key, default) == IF key \in DOMAIN obj.m THEN obj.m[key] ELSE default

\* The dictionary analyze_recent_emails returns; the service later adds
\* generated_at and days_analyzed to the same dictionary.
Insights(status, message, rel, proj, pat, act, info) ==
    [status |-> status, message |-> message,
     key_relationships |-> rel, active_projects |-> proj,
     communication_patterns |-> pat, action_items |-> act,
     important_information |-> info,
     generated_at |-> NoTime, days_analyzed |-> 0]

ErrorInsights(message) ==
    Insights("error", message, JList(<<>>), JList(<<>>), JObj(EmptyMap),
             JList(<<>>), JList(<<>>))

\* What the email source does for one sync: the token may be missing, the
\* connection test may fail, the fetch may raise, or emails (possibly none)
\* are returned.
SourceOutcomes == {"no_token", "connect_failed", "fetch_error", "empty", "emails"}

\* GmailConnector.get_recent_emails: every error ends in an empty list.
get_recent_emails(source) ==
    IF source = "emails" THEN "emails" ELSE "none"

\* response.get(expected_key, default) on what the parser returned: a list or a
\* string has no get, which raises AttributeError.
CategoryResult(response, expected_key) ==
    LET r == get_structured_response(response, expected_key)
    IN  IF r.exc # "none" THEN Raises(r.exc)
        ELSE IF r.ret.k # "obj" THEN Raises("AttributeError")
        ELSE Returns(GetOr(r.ret, expected_key, DefaultValue(expected_key)))

\* The five sequential calls; the first exception ends them.
CombinedResults(llm) ==
    LET rel == CategoryResult(llm["key_relationships"], "key_relationships")
        proj == CategoryResult(llm["active_projects"], "active_projects")
        pat == CategoryResult(llm["communication_patterns"], "communication_patterns")
        act == CategoryResult(llm["action_items"], "action_items")
        info == CategoryResult(llm["important_information"], "important_information")
    IN  IF \E r \in {rel, proj, pat, act, info} : r.exc # "none"
        THEN Raises("AttributeError")
        ELSE Returns(Insights("success", "Analysis completed successfully",
                              rel.ret, proj.ret, pat.ret, act.ret, info.ret))

HandleAnalysisError(r) ==
    IF r.exc # "none" THEN ErrorInsights("Error analyzing emails") ELSE r.ret

analyze_recent_emails(source, llm) ==
    IF source = "no_token" THEN ErrorInsights("No access token provided for Gmail API")
    ELSE IF source = "connect_failed" THEN ErrorInsights("Failed to connect to Gmail API")
    ELSE HandleAnalysisError(CombinedResults(llm))


(***************************************************************************)
(* The keyword arguments of the call (intelligence_service.py) and the     *)
(* parameters of the analyzer.  The analyzer under email_intelligence.py   *)
(* declares no structured_knowledge parameter, so with it the call of the  *)
(* service raises TypeError before anything is fetched.  The revision that *)
(* accepts structured knowledge (spec 4.2 and 9) is not among the sources: *)
(* it is taken to differ in that parameter only.                           *)
(***************************************************************************)
\* A call that passes the previous insights whatever the sync type.
call_keywords_with_context(sync_type) ==
    {"previous_insights", "structured_knowledge"}

call_keywords(sync_type) ==
    IF sync_type = "incremental" THEN {"previous_insights", "structured_knowledge"}
    ELSE {"structured_knowledge"}

analyze_parameters ==
    {"user_email", "access_token", "days_back", "previous_insights"}

analyze_parameters_structured ==
    analyze_parameters \cup {"structured_knowledge"}

AnalyzerRevisions == {"src", "structured"}

Binds(revision, sync_type) ==
    call_keywords(sync_type) \subseteq
        (IF revision = "src" THEN analyze_parameters ELSE analyze_parameters_structured)

(***************************************************************************)
(* The LLM answers the model draws from: per category an answer text or a  *)
(* service error.                                                          *)
(***************************************************************************)
Obj1(k1, v1) == JObj(Put(EmptyMap, k1, v1))
Obj2(k1, v1, k2, v2) == JObj(Put(Put(EmptyMap, k1, v1), k2, v2))
Obj3(k1, v1, k2, v2, k3, v3) == JObj(Put(Put(Put(EmptyMap, k1, v1), k2, v2), k3, v3))

ItemJane == Obj2("email", JStr("jane@x.com"), "name", JStr("Jane"))
ItemJaneDoe ==
    Obj3("email", JStr("jane@x.com"), "name", JStr("Jane Doe"), "importance", JStr("High"))
ItemAlpha == Obj2("name", JStr("Alpha"), "status", JStr("active"))
ItemBeta == Obj2("name", JStr("Beta"), "status", JStr("planned"))
ItemReply == Obj1("description", JStr("reply to Jane"))
ItemSigned == Obj2("description", JStr("sign contract"), "status", JStr("completed"))

Answers(rel, proj, pat, act, info) ==
    [key_relationships |-> Answer(json_dumps(Obj1("key_relationships", rel))),
     active_projects |-> Answer(json_dumps(Obj1("active_projects", proj))),
     communication_patterns |-> Answer(json_dumps(Obj1("communication_patterns", pat))),
     action_items |-> Answer(json_dumps(Obj1("action_items", act))),
     important_information |-> Answer(json_dumps(Obj1("important_information", info)))]

FirstAnswers ==
    Answers(JList(<<ItemJane>>), JList(<<ItemAlpha>>), Obj1("peak_time", JStr("morning")),
            JList(<<ItemReply>>), JList(<<JStr("offsite on Friday")>>))

UpdateAnswers ==
    Answers(JList(<<ItemJaneDoe>>), JList(<<ItemBeta>>), Obj1("peak_time", JStr("evening")),
            JList(<<ItemSigned>>), JList(<<>>))

EmptyAnswers == [c \in ExpectedKeys |-> Answer(<<"{", "}">>)]

Degraded(c) == [FirstAnswers EXCEPT ![c] = ServiceError]
Garbled(c) == [FirstAnswers EXCEPT ![c] = Answer(<<"x", "{">>)]

\* Valid JSON that is not an object: an array holding the expected key.
ArrayAnswer(c) == [FirstAnswers EXCEPT ![c] = Answer(json_dumps(JList(<<JStr(c)>>)))]
\* An object whose expected key maps to null.
NullAnswer(c) == [FirstAnswers EXCEPT ![c] = Answer(json_dumps(Obj1(c, JNum)))]

Profiles ==
    {FirstAnswers, UpdateAnswers, EmptyAnswers,
     Degraded("communication_patterns"), Degraded("key_relationships"),
     Garbled("key_relationships"),
     ArrayAnswer("key_relationships"), NullAnswer("action_items")}

\* The answers drawn for a sync, by what the email source did.
ProfilesFor(source) ==
    CASE source \in {"no_token", "connect_failed"} -> {EmptyAnswers}
      [] source \in {"fetch_error", "empty"} -> {FirstAnswers, EmptyAnswers}
      [] OTHER -> Profiles


(***************************************************************************)
(* The persisted records and the merge of one analysis into them.          *)
(***************************************************************************)
Users == {"u1", "u2"}
MaxJobs == 2
Jobs == 1..MaxJobs
MaxFailures == 1
TicksPerDay == 2
DefaultDaysBack == 30

NoInsights ==
    Insights("none", "", JList(<<>>), JList(<<>>), JObj(EmptyMap), JList(<<>>), JList(<<>>))

\* A UserIntelligence row, with the ContactIntelligence rows of the user.
NoRow ==
    [exists |-> FALSE,
     contacts_knowledge |-> EmptyMap,
     general_business_knowledge |-> EmptyMap,
     tactical_notifications |-> <<>>,
     last_email_analysis |-> NoInsights,
     email_insights_cache |-> NoInsights,
     contact_records |-> {}]

\* A sync record that exists as 'pending' before its sync begins.
PendingJob ==
    [status |-> "pending", user_email |-> "", sync_type |-> "", progress |-> 0,
     error_message |-> "", completed_at |-> -1]

\* An EmailSyncStatus row.
NoJob ==
    [status |-> "none", user_email |-> "", sync_type |-> "", progress |-> 0,
     error_message |-> "", completed_at |-> NoTime]

NoResult == [status |-> "none", sync_id |-> 0, message |-> ""]

\* "for x in value": a list yields its items, a dict its keys and a string its
\* characters (none of them a dict), anything else raises TypeError.
Iterable(v) == v.k \in {"list", "obj", "str"}
IterItems(v) == IF v.k = "list" THEN v.items ELSE <<>>
Truthy(v) ==
    CASE v.k = "list" -> v.items # <<>>
      [] v.k = "obj" -> DOMAIN v.m # {}
      [] v.k = "str" -> TRUE
      [] OTHER -> FALSE

\* A contacts map keyed by the contact's name.
ContactKeyByName(relationship) ==
    LET n == GetOr(relationship, "name", JStr("unknown"))
    IN  IF n.k = "str" THEN n.s ELSE "null"

ContactKey(relationship) ==
    LET e == GetOr(relationship, "email", JStr("unknown"))
    IN  IF e.k = "str" THEN e.s ELSE "null"

\* An entry whose recent_interactions hold the time of the merge.
ContactEntryTimed(relationship, t) ==
    [name |-> Get(relationship, "name"),
     role |-> Get(relationship, "role"),
     importance |-> Get(relationship, "importance"),
     recent_interactions |-> t,
     last_updated |-> t]

ContactEntry(relationship, t) ==
    [name |-> Get(relationship, "name"),
     role |-> Get(relationship, "role"),
     importance |-> Get(relationship, "importance"),
     recent_interactions |-> Get(relationship, "recent_interactions"),
     last_updated |-> t]

RECURSIVE MergeContacts(_, _, _)
MergeContacts(contacts_knowledge, items, t) ==
    IF items = <<>> THEN contacts_knowledge
    ELSE LET relationship == Head(items)
         IN  MergeContacts(
                 IF relationship.k = "obj"
                 THEN Put(contacts_knowledge, ContactKey(relationship),
                          ContactEntry(relationship, t))
                 ELSE contacts_knowledge,
                 Tail(items), t)

\* _update_contact_intelligence: one row per contact with a known email.
ContactRecords(items) ==
    {ContactKey(items[i]) : i \in {n \in 1..Len(items) : items[n].k = "obj"}} \ {"unknown"}

ProjectKey(project) ==
    LET n == GetOr(project, "name", JStr("Unknown Project"))
    IN  IF n.k = "str" THEN n.s ELSE "null"

ProjectEntry(project, t) ==
    [description |-> Get(project, "description"),
     status |-> Get(project, "status"),
     priority |-> Get(project, "priority"),
     stakeholders |-> GetOr(project, "key_stakeholders", JList(<<>>)),
     last_updated |-> t]

RECURSIVE MergeProjects(_, _, _)
MergeProjects(business_knowledge, items, t) ==
    IF items = <<>> THEN business_knowledge
    ELSE LET project == Head(items)
         IN  MergeProjects(
                 IF project.k = "obj"
                 THEN Put(business_knowledge, ProjectKey(project), ProjectEntry(project, t))
                 ELSE business_knowledge,
                 Tail(items), t)

TacticalEntry(action, t) ==
    [description |-> Get(action, "description"),
     deadline |-> Get(action, "deadline"),
     priority |-> GetOr(action, "priority", JStr("Medium")),
     context |-> Get(action, "context"),
     created_at |-> t,
     status |-> "pending"]

RECURSIVE TacticalItems(_, _)
TacticalItems(items, t) ==
    IF items = <<>> THEN <<>>
    ELSE (IF Head(items).k = "obj" THEN <<TacticalEntry(Head(items), t)>> ELSE <<>>)
         \o TacticalItems(Tail(items), t)

\* session.commit(): the attributes assigned since the last commit reach the row.
Flush(stored, row, dirty) ==
    [a \in DOMAIN stored |-> IF a \in dirty THEN row[a] ELSE stored[a]]

\* The larger of the two.
Larger(a, b) == IF a <= b THEN b ELSE a

Min(a, b) == IF a <= b THEN a ELSE b

\* (datetime.utcnow() - last_sync).days
DaysBetween(t, last) == (t - last) \div TicksPerDay


(***************************************************************************)
(* State.                                                                  *)
(***************************************************************************)
VARIABLES
    sync_status,        \* main.py: the process-wide tracker dictionary
    session,            \* the Flask session of each logged-in user
    db_intel,           \* committed UserIntelligence row of each user
    db_sync,            \* committed EmailSyncStatus row of each sync
    thread,             \* the background thread of each sync and its locals
    jobs_started,       \* number of /sync-emails requests served
    now,                \* the clock
    failures,           \* number of commits the database has refused
    analyzer_revision,  \* which analyzer the service is deployed with
    resp_key,           \* response parser: expected key of the call
    resp_text,          \* response parser: outcome of the LLM call
    resp_out            \* response parser: what the call returned

vars ==
    <<sync_status, session, db_intel, db_sync, thread, jobs_started, now, failures,
      analyzer_revision, resp_key, resp_text, resp_out>>

parser_vars == <<resp_key, resp_text, resp_out>>
pipeline_vars ==
    <<sync_status, session, db_intel, db_sync, thread, jobs_started, now, failures,
      analyzer_revision>>

NoThread ==
    [pc |-> "idle", user_email |-> "", force_full_sync |-> FALSE, days_back |-> 0,
     sync_type |-> "", last_sync |-> NoTime, actual_days_back |-> 0,
     loaded |-> FALSE, row |-> NoRow, dirty |-> {}, job |-> NoJob,
     source |-> "", email_summaries |-> "none", llm |-> EmptyAnswers,
     insights |-> NoInsights, exc |-> "none", result |-> NoResult]

\* The module-level sync_status of main.py.
InitialStatus ==
    [user_email |-> "", is_syncing |-> FALSE, progress |-> 0, sync_type |-> "",
     start_time |-> NoTime, email_insights |-> NoResult, error |-> ""]

NoSession == [email_insights |-> NoResult, last_email_sync |-> NoTime]

PipelineInit ==
    /\ sync_status = InitialStatus
    /\ session = [u \in Users |-> NoSession]
    /\ db_intel = [u \in Users |-> NoRow]
    /\ db_sync = [j \in Jobs |-> NoJob]
    /\ thread = [j \in Jobs |-> NoThread]
    /\ jobs_started = 0
    /\ now = 0
    /\ failures = 0

ParserIdle ==
    /\ resp_key = ""
    /\ resp_text = ServiceError
    /\ resp_out = Raises("unset")

Init ==
    /\ PipelineInit
    /\ analyzer_revision \in AnalyzerRevisions
    /\ ParserIdle

(***************************************************************************)
(* main.py: /sync-emails.                                                  *)
(***************************************************************************)
\* The users are interchangeable: the first request is taken to be u1's.
Requesters == IF jobs_started = 0 THEN {"u1"} ELSE Users

sync_emails(u, force_full_sync) ==
    /\ jobs_started < MaxJobs
    /\ u \in Requesters
    /\ jobs_started' = jobs_started + 1
    /\ now' = now + 1
    /\ sync_status' =
           [user_email |-> u, is_syncing |-> TRUE, progress |-> 0,
            sync_type |-> "Email Intelligence", start_time |-> now',
            email_insights |-> NoResult, error |-> ""]
    /\ thread' = [thread EXCEPT ![jobs_started + 1] =
           [NoThread EXCEPT !.pc = "begin", !.user_email = u,
                            !.force_full_sync = force_full_sync,
                            !.days_back = DefaultDaysBack]]
    /\ UNCHANGED <<session, db_intel, db_sync, failures, analyzer_revision, parser_vars>>

(***************************************************************************)
(* intelligence_service.py: process_and_store_email_insights, one action   *)
(* per stretch between two database round trips.                           *)
(***************************************************************************)
CommitOutcomes == IF failures < MaxFailures THEN {TRUE, FALSE} ELSE {TRUE}

\* A refused commit: the transaction is rolled back, the session expires what
\* it had loaded, and the exception reaches the handler of the method.
Refused(j) ==
    /\ failures' = failures + 1
    /\ thread' = [thread EXCEPT ![j].pc = "handler", ![j].exc = "PersistenceFailure",
                                ![j].dirty = {}, ![j].loaded = FALSE,
                                ![j].job = IF db_sync[j].status # "none" THEN db_sync[j] ELSE @]
    /\ UNCHANGED <<db_intel, db_sync>>

\* An exception of the method body itself.
Throws(j, e) ==
    /\ thread' = [thread EXCEPT ![j].pc = "handler", ![j].exc = e]
    /\ UNCHANGED <<db_intel, db_sync, failures>>

\* Lines 61-87: choose the sync type, add the sync record, commit.
Begin(j) ==
    LET t == thread[j]
        stored == db_intel[t.user_email]
        cache == stored.email_insights_cache
        incremental ==
            /\ stored.exists
            /\ cache.status # "none"
            /\ ~t.force_full_sync
            /\ cache.generated_at # NoTime
        record ==
            [NoJob EXCEPT !.status = "processing", !.user_email = t.user_email,
                          !.sync_type = IF incremental THEN "incremental" ELSE "full",
                          !.progress = 10]
    IN  /\ t.pc = "begin"
        /\ \E ok \in CommitOutcomes :
              IF ok
              THEN /\ thread' = [thread EXCEPT
                         ![j].pc = "progress30",
                         ![j].force_full_sync = FALSE,
                         ![j].sync_type = record.sync_type,
                         ![j].last_sync = IF incremental THEN cache.generated_at ELSE NoTime,
                         ![j].job = record]
                   /\ db_sync' = [db_sync EXCEPT ![j] = record]
                   /\ UNCHANGED <<db_intel, failures>>
              ELSE /\ failures' = failures + 1
                   /\ thread' = [thread EXCEPT
                         ![j].pc = "handler", ![j].exc = "PersistenceFailure",
                         ![j].force_full_sync = FALSE,
                         ![j].sync_type = record.sync_type, ![j].job = record]
                   /\ UNCHANGED <<db_intel, db_sync>>
        /\ UNCHANGED <<sync_status, session, jobs_started, now, analyzer_revision, parser_vars>>

\* Lines 89-98: get or create the user's row, progress 30, commit.
Progress30(j) ==
    LET t == thread[j]
        record == [t.job EXCEPT !.progress = 30]
    IN  /\ t.pc = "progress30"
        /\ \E ok \in CommitOutcomes :
              IF ok
              THEN /\ thread' = [thread EXCEPT ![j].pc = "analyze", ![j].job = record]
                   /\ db_sync' = [db_sync EXCEPT ![j] = record]
                   /\ db_intel' = [db_intel EXCEPT ![t.user_email].exists = TRUE]
                   /\ UNCHANGED failures
              ELSE Refused(j)
        /\ UNCHANGED <<sync_status, session, jobs_started, now, analyzer_revision, parser_vars>>


\* Lines 100-141: the lookback window, the row read for the previous insights
\* of an incremental sync, and the call of the analyzer.
Analyze(j) ==
    LET t == thread[j]
        incremental == t.sync_type = "incremental" /\ t.last_sync # NoTime
        window == IF incremental
                  THEN Min(t.days_back, DaysBetween(now, t.last_sync) + 1)
                  ELSE 0
        base == [t EXCEPT !.actual_days_back = window,
                          !.loaded = incremental,
                          !.row = IF incremental THEN db_intel[t.user_email] ELSE t.row]
    IN  /\ t.pc = "analyze"
        /\ IF ~Binds(analyzer_revision, t.sync_type)
           THEN thread' = [thread EXCEPT ![j] = [base EXCEPT !.pc = "handler",
                                                             !.exc = "TypeError"]]
           ELSE \E source \in SourceOutcomes :
                \E llm \in ProfilesFor(source) :
                    thread' = [thread EXCEPT ![j] =
                        [base EXCEPT !.pc = "merge",
                                     !.source = source,
                                     !.email_summaries = get_recent_emails(source),
                                     !.llm = llm,
                                     !.insights = analyze_recent_emails(source, llm)]]
        /\ UNCHANGED <<sync_status, session, db_intel, db_sync, jobs_started, now, failures,
                       analyzer_revision, parser_vars>>

Analyzed(insights) ==
    insights.status = "success" \/ Truthy(insights.key_relationships)

\* Lines 240-250: the analysis reported an error.
MarkFailed(j) ==
    LET t == thread[j]
        record == [t.job EXCEPT !.status = "failed",
                                !.error_message = t.insights.message,
                                !.completed_at = now]
    IN  /\ t.pc = "merge"
        /\ ~Analyzed(t.insights)
        /\ \E ok \in CommitOutcomes :
              IF ok
              THEN /\ thread' = [thread EXCEPT
                         ![j].pc = "returned", ![j].job = record,
                         ![j].result = [status |-> "error", sync_id |-> 0,
                                        message |-> t.insights.message]]
                   /\ db_sync' = [db_sync EXCEPT ![j] = record]
                   /\ UNCHANGED <<db_intel, failures>>
              ELSE Refused(j)
        /\ UNCHANGED <<sync_status, session, jobs_started, now, analyzer_revision, parser_vars>>

\* Lines 143-162: merge the relationships into contacts_knowledge.
MergeContactsStep(j) ==
    LET t == thread[j]
        row == IF t.loaded THEN t.row ELSE db_intel[t.user_email]
        rel == t.insights.key_relationships
        merged == [row EXCEPT
                     !.contacts_knowledge = MergeContacts(@, IterItems(rel), now),
                     !.contact_records = @ \cup ContactRecords(IterItems(rel))]
    IN  /\ t.pc = "merge"
        /\ Analyzed(t.insights)
        /\ IF ~Iterable(rel) THEN Throws(j, "TypeError")
           ELSE /\ thread' = [thread EXCEPT
                      ![j].pc = "commit_contacts", ![j].loaded = TRUE, ![j].row = merged,
                      ![j].dirty = {"contacts_knowledge", "contact_records"},
                      ![j].job = [t.job EXCEPT !.progress = 50]]
                /\ UNCHANGED <<db_intel, db_sync, failures>>
        /\ UNCHANGED <<sync_status, session, jobs_started, now, analyzer_revision, parser_vars>>

\* A commit of the merge: the dirty attributes and the sync record are written
\* and the session expires what it had loaded.
Commit(j, next_pc) ==
    LET t == thread[j]
    IN  \E ok \in CommitOutcomes :
            IF ok
            THEN /\ db_intel' = [db_intel EXCEPT ![t.user_email] = Flush(@, t.row, t.dirty)]
                 /\ db_sync' = [db_sync EXCEPT ![j] = t.job]
                 /\ thread' = [thread EXCEPT ![j].pc = next_pc, ![j].dirty = {},
                                             ![j].loaded = FALSE]
                 /\ UNCHANGED failures
            ELSE Refused(j)

\* Line 163.
CommitContacts(j) ==
    /\ thread[j].pc = "commit_contacts"
    /\ Commit(j, "merge_business")
    /\ UNCHANGED <<sync_status, session, jobs_started, now, analyzer_revision, parser_vars>>

\* Lines 165-179: merge the projects into general_business_knowledge.
MergeBusinessStep(j) ==
    LET t == thread[j]
        row == db_intel[t.user_email]
        proj == t.insights.active_projects
        merged == [row EXCEPT
                     !.general_business_knowledge = MergeProjects(@, IterItems(proj), now)]
    IN  /\ t.pc = "merge_business"
        /\ IF ~Iterable(proj) THEN Throws(j, "TypeError")
           ELSE /\ thread' = [thread EXCEPT
                      ![j].pc = "commit_business", ![j].loaded = TRUE, ![j].row = merged,
                      ![j].dirty = {"general_business_knowledge"},
                      ![j].job = [t.job EXCEPT !.progress = 70]]
                /\ UNCHANGED <<db_intel, db_sync, failures>>
        /\ UNCHANGED <<sync_status, session, jobs_started, now, analyzer_revision, parser_vars>>

\* Line 180.
CommitBusiness(j) ==
    /\ thread[j].pc = "commit_business"
    /\ Commit(j, "finalize")
    /\ UNCHANGED <<sync_status, session, jobs_started, now, analyzer_revision, parser_vars>>


\* Lines 182-232: the tactical notifications, the cached analysis with its
\* metadata, the completed sync record, and the last commit.
Finalize(j) ==
    LET t == thread[j]
        act == t.insights.action_items
        tactical_items == TacticalItems(IterItems(act), now)
        days == IF t.sync_type = "full" THEN t.days_back ELSE t.actual_days_back
        insights == [t.insights EXCEPT !.generated_at = now, !.days_analyzed = days]
        record == [t.job EXCEPT !.status = "completed", !.progress = 100,
                                !.completed_at = now]
        row == [t.row EXCEPT !.tactical_notifications = tactical_items,
                             !.last_email_analysis = insights,
                             !.email_insights_cache = insights]
    IN  /\ t.pc = "finalize"
        /\ IF ~Iterable(act) THEN Throws(j, "TypeError")
           ELSE IF ~Iterable(t.insights.important_information)
           THEN /\ thread' = [thread EXCEPT
                      ![j].pc = "handler", ![j].exc = "TypeError",
                      ![j].row = [t.row EXCEPT !.tactical_notifications = tactical_items],
                      ![j].dirty = {"tactical_notifications"}]
                /\ UNCHANGED <<db_intel, db_sync, failures>>
           ELSE \E ok \in CommitOutcomes :
                   IF ok
                   THEN /\ db_intel' = [db_intel EXCEPT ![t.user_email] =
                               Flush(@, row, {"tactical_notifications", "last_email_analysis",
                                              "email_insights_cache"})]
                        /\ db_sync' = [db_sync EXCEPT ![j] = record]
                        /\ thread' = [thread EXCEPT
                               ![j].pc = "returned", ![j].job = record,
                               ![j].insights = insights,
                               ![j].result = [status |-> "success", sync_id |-> j,
                                              message |-> ""]]
                        /\ UNCHANGED failures
                   ELSE Refused(j)
        /\ UNCHANGED <<sync_status, session, jobs_started, now, analyzer_revision, parser_vars>>

\* Lines 252-263: the handler marks the sync record failed and commits.  After
\* a refused commit the session may refuse again; a record whose insert was
\* rolled back is no longer part of the session.
Handler(j) ==
    LET t == thread[j]
        record == [t.job EXCEPT !.status = "failed", !.error_message = t.exc,
                                !.completed_at = now]
        inserted == db_sync[j].status # "none"
        returned == [thread EXCEPT
                        ![j].pc = "returned", ![j].job = record, ![j].dirty = {},
                        ![j].result = [status |-> "error", sync_id |-> 0,
                                       message |-> t.exc]]
        escaped == [thread EXCEPT ![j].pc = "escaped", ![j].dirty = {}]
    IN  /\ t.pc = "handler"
        /\ IF t.exc = "PersistenceFailure"
           THEN \E ok \in BOOLEAN :
                   IF ok
                   THEN /\ db_sync' = [db_sync EXCEPT ![j] = IF inserted THEN record ELSE @]
                        /\ thread' = returned
                        /\ UNCHANGED <<db_intel, failures>>
                   ELSE /\ thread' = escaped
                        /\ UNCHANGED <<db_intel, db_sync, failures>>
           ELSE \E ok \in CommitOutcomes :
                   IF ok
                   THEN /\ db_intel' = [db_intel EXCEPT ![t.user_email] =
                               Flush(@, t.row, t.dirty)]
                        /\ db_sync' = [db_sync EXCEPT ![j] = record]
                        /\ thread' = returned
                        /\ UNCHANGED failures
                   ELSE /\ failures' = failures + 1
                        /\ thread' = escaped
                        /\ UNCHANGED <<db_intel, db_sync>>
        /\ UNCHANGED <<sync_status, session, jobs_started, now, analyzer_revision, parser_vars>>

(***************************************************************************)
(* main.py: the end of run_sync, and /api/sync-status.                     *)
(***************************************************************************)
Finished(t) == [NoThread EXCEPT !.pc = "done", !.user_email = t.user_email]

\* Lines 330-336: the method returned a result.
RunSyncReturn(j) ==
    /\ thread[j].pc = "returned"
    /\ sync_status' = [sync_status EXCEPT !.is_syncing = FALSE, !.progress = 100,
                                          !.email_insights = thread[j].result]
    /\ thread' = [thread EXCEPT ![j] = Finished(thread[j])]
    /\ UNCHANGED <<session, db_intel, db_sync, jobs_started, now, failures,
                   analyzer_revision, parser_vars>>

\* Lines 338-343: an exception left the method.
RunSyncExcept(j) ==
    /\ thread[j].pc = "escaped"
    /\ sync_status' = [sync_status EXCEPT !.is_syncing = FALSE, !.progress = 0,
                                          !.error = thread[j].exc]
    /\ thread' = [thread EXCEPT ![j] = Finished(thread[j])]
    /\ UNCHANGED <<session, db_intel, db_sync, jobs_started, now, failures,
                   analyzer_revision, parser_vars>>

SyncComplete == ~sync_status.is_syncing /\ sync_status.progress = 100

\* The JSON body /api/sync-status answers user u with.
StatusResponse(u) ==
    IF sync_status.user_email = u
    THEN [is_syncing |-> sync_status.is_syncing, progress |-> sync_status.progress,
          sync_type |-> sync_status.sync_type,
          redirect |-> IF SyncComplete THEN "/email-insights" ELSE "none"]
    ELSE [is_syncing |-> FALSE, progress |-> 0, sync_type |-> "",
          redirect |-> "/email-insights"]

api_sync_status(u) ==
    /\ sync_status.user_email = u
    /\ SyncComplete
    /\ sync_status.email_insights.status # "none"
    /\ session' = [session EXCEPT ![u] =
           [email_insights |-> sync_status.email_insights, last_email_sync |-> now]]
    /\ session'[u] # session[u]
    /\ UNCHANGED <<sync_status, db_intel, db_sync, thread, jobs_started, now, failures,
                   analyzer_revision, parser_vars>>

Next ==
    \/ \E u \in Users, force_full_sync \in BOOLEAN : sync_emails(u, force_full_sync)
    \/ \E j \in Jobs : Begin(j)
    \/ \E j \in Jobs : Progress30(j)
    \/ \E j \in Jobs : Analyze(j)
    \/ \E j \in Jobs : MarkFailed(j)
    \/ \E j \in Jobs : MergeContactsStep(j)
    \/ \E j \in Jobs : CommitContacts(j)
    \/ \E j \in Jobs : MergeBusinessStep(j)
    \/ \E j \in Jobs : CommitBusiness(j)
    \/ \E j \in Jobs : Finalize(j)
    \/ \E j \in Jobs : Handler(j)
    \/ \E j \in Jobs : RunSyncReturn(j)
    \/ \E j \in Jobs : RunSyncExcept(j)
    \/ \E u \in Users : api_sync_status(u)

Spec == Init /\ [][Next]_vars


(***************************************************************************)
(* The response parser on its own: one call of _get_structured_response    *)
(* for every expected key and every response of a bounded family.          *)
(***************************************************************************)
MaxJunk == 1
JunkLexemes == {"x", "{", "}"}
Junk == UNION {[1..n -> JunkLexemes] : n \in 0..MaxJunk}

\* JSON objects that carry the expected key.
KeyedObjects(expected_key) ==
    {Obj1(expected_key, JList(<<>>)),
     Obj1(expected_key, JObj(EmptyMap)),
     Obj1(expected_key, JList(<<ItemJane>>)),
     Obj1(expected_key, JNum),
     Obj2(expected_key, JList(<<ItemJane, ItemJaneDoe>>), "other", JStr("note"))}

\* Other JSON values: objects without the key, lists, strings, a number.
OtherValues(expected_key) ==
    {JObj(EmptyMap), Obj1("other", JNum), JList(<<>>), JList(<<JStr(expected_key)>>),
     JList(<<JNum>>), JStr(expected_key), JStr("other"), JNum}

Fenced(body) ==
    {body, <<FenceJson>> \o body \o <<Fence>>, <<Fence>> \o body \o <<Fence>>,
     <<FenceJson>> \o body}

ResponseTexts(expected_key) ==
    LET values == KeyedObjects(expected_key) \cup OtherValues(expected_key)
        bodies == {<<>>} \cup {json_dumps(v) : v \in values}
    IN  UNION {UNION {{pre \o f \o post : f \in Fenced(b)} : b \in bodies}
                  : <<pre, post>> \in Junk \X Junk}

ParserInit ==
    /\ PipelineInit
    /\ analyzer_revision = "src"
    /\ ParserIdle

\* messages.create: an answer text, or an exception of the service.
LLMResponds ==
    /\ resp_out = Raises("unset")
    /\ resp_key' \in ExpectedKeys
    /\ resp_text' \in {ServiceError} \cup {Answer(t) : t \in ResponseTexts(resp_key')}
    /\ resp_out' = Raises("pending")
    /\ UNCHANGED pipeline_vars

ParseResponse ==
    /\ resp_out = Raises("pending")
    /\ resp_out' = get_structured_response(resp_text, resp_key)
    /\ UNCHANGED <<resp_key, resp_text, pipeline_vars>>

ParserNext == LLMResponds \/ ParseResponse

ParserSpec == ParserInit /\ [][ParserNext]_vars


(***************************************************************************)
(* Properties of the response parser, under ParserSpec.                    *)
(***************************************************************************)
Parsed == resp_out \notin {Raises("unset"), Raises("pending")}
Answered == Parsed /\ ~resp_text.raised

\* The text is not valid JSON.
NotJson(t) == ~json_loads(t).ok

\* Neither the text without its fence markers nor the stretch from its first
\* opening brace to its last closing brace is valid JSON.
NothingDecodes(t) ==
    LET cleaned == CleanResponse(t)
        json_match == re_search(cleaned)
    IN  /\ NotJson(cleaned)
        /\ json_match.found => NotJson(json_match.text)

C8_KeyedObjectUnchanged ==
    \A v \in KeyedObjects(resp_key) :
        Answered /\ resp_text.text = json_dumps(v) => resp_out = Returns(v)

\* An object with the expected key and a second key went through the parser.
C8_Witness ==
    LET v == Obj2("active_projects", JList(<<ItemJane, ItemJaneDoe>>),
                  "other", JStr("note"))
    IN  /\ Answered
        /\ resp_key = "active_projects"
        /\ resp_text.text = json_dumps(v)
        /\ resp_out = Returns(v)


(***************************************************************************)
(* Properties of the sync pipeline, under Spec.                            *)
(***************************************************************************)
\* The syncs of user u whose thread has started and not ended.
Running(u) ==
    {j \in Jobs : thread[j].user_email = u /\ thread[j].pc \notin {"idle", "done"}}

\* This step serves a /sync-emails request of user u by starting a thread.
Started(u) ==
    \E j \in Jobs :
        thread[j].pc = "idle" /\ thread'[j].pc = "begin" /\ thread'[j].user_email = u

\* C1: a /sync-emails request for a user whose previous sync is still running
\* is rejected: no step starts a second thread for that user, or gives the
\* tracker a new progress, start time or owner on that user's request.
C1_SecondRequestRejected ==
    [][\A u \in Users :
          Running(u) # {} => /\ ~Started(u)
                             /\ sync_status'.user_email = u /\ jobs_started' # jobs_started
                                  => sync_status' = sync_status]_vars

Processing(u) ==
    {j \in Jobs : db_sync[j].user_email = u /\ db_sync[j].status = "processing"}

MergePcs == {"commit_contacts", "merge_business", "commit_business", "finalize"}

Merging(u) ==
    {j \in Jobs : thread[j].user_email = u /\ thread[j].pc \in MergePcs}

\* C2: in every reachable state every user has at most one sync record with
\* status 'processing' and at most one execution merging into the user's maps.
C2_OneProcessingPerUser ==
    \A u \in Users :
        /\ Cardinality(Processing(u)) <= 1
        /\ Cardinality(Merging(u)) <= 1

Knowledge(row) ==
    <<row.contacts_knowledge, row.general_business_knowledge,
      row.tactical_notifications, row.email_insights_cache>>

Unavailable == {"no_token", "connect_failed", "fetch_error"}

\* C5: when the email source cannot supply emails (missing token, failed
\* connection test, error during the fetch) no category is analyzed, nothing is
\* merged, and the sync ends with an error result and a 'failed' record.
C5_SourceUnavailableAborts ==
    \A j \in Jobs :
        thread[j].source \in Unavailable =>
            /\ thread[j].insights.status # "success"
            /\ thread[j].pc \notin MergePcs
            /\ thread[j].pc = "returned" =>
                  /\ thread[j].result.status = "error"
                  /\ db_sync[j].status = "failed"

\* The LLM call of category c raised and the other four answered with a JSON
\* object that holds their expected key.
OnlyCallFailed(llm, c) ==
    /\ llm[c].raised
    /\ \A k \in ExpectedKeys \ {c} :
          /\ ~llm[k].raised
          /\ json_loads(llm[k].text).ok
          /\ json_loads(llm[k].text).val.k = "obj"
          /\ k \in DOMAIN json_loads(llm[k].text).val.m

\* What the answer of category k holds under its expected key.
Extracted(llm, k) == json_loads(llm[k].text).val.m[k]

\* The relationship or project items that are objects with a string under key.
Keyed(items, key) ==
    {i \in 1..Len(items) :
        /\ items[i].k = "obj"
        /\ key \in DOMAIN items[i].m
        /\ items[i].m[key].k = "str"}

Unstamped(m) ==
    [key \in DOMAIN m |-> [f \in (DOMAIN m[key]) \ {"last_updated"} |-> m[key][f]]]

\* Sync j of a user is the second one, and its five category results are those
\* of the snapshot the first one stored.
SecondRun(j) ==
    LET t == thread[j]
        stored == db_intel[t.user_email].last_email_analysis
    IN  /\ jobs_started = 2
        /\ stored.status = "success"
        /\ \A k \in ExpectedKeys : stored[k] = t.insights[k]

HasSnapshot(u) ==
    db_intel[u].exists /\ db_intel[u].email_insights_cache.status # "none"

MaxDaysBack == 3
MaxClock == 6

\* The days_back argument of the analyzer call (lines 127 and 139).
WindowPassed(t) ==
    IF t.sync_type = "incremental" /\ t.last_sync # NoTime
    THEN t.actual_days_back ELSE t.days_back

\* The snapshot a first sync with FirstAnswers stored at time t, which is
\* analyze_recent_emails("emails", FirstAnswers) with the two fields of lines 215-216.
SnapshotAt(t) ==
    [Insights("success", "Analysis completed successfully",
              JList(<<ItemJane>>), JList(<<ItemAlpha>>),
              Obj1("peak_time", JStr("morning")), JList(<<ItemReply>>),
              JList(<<JStr("offsite on Friday")>>)) EXCEPT
        !.generated_at = t, !.days_analyzed = DefaultDaysBack]

WindowInit ==
    /\ analyzer_revision \in AnalyzerRevisions
    /\ ParserIdle
    /\ session = [u \in Users |-> NoSession]
    /\ jobs_started = 1
    /\ failures = 0
    /\ \E days_back \in -1..MaxDaysBack, last_sync \in {NoTime} \cup 0..MaxClock :
          LET sync_type == IF last_sync = NoTime THEN "full" ELSE "incremental"
              record == [NoJob EXCEPT !.status = "processing", !.user_email = "u1",
                                      !.sync_type = sync_type, !.progress = 30]
              row == IF last_sync = NoTime THEN [NoRow EXCEPT !.exists = TRUE]
                     ELSE [NoRow EXCEPT !.exists = TRUE,
                                        !.last_email_analysis = SnapshotAt(last_sync),
                                        !.email_insights_cache = SnapshotAt(last_sync)]
          IN  /\ now \in (IF last_sync = NoTime THEN 0 ELSE last_sync)..MaxClock
              /\ sync_status =
                     [InitialStatus EXCEPT !.user_email = "u1", !.is_syncing = TRUE,
                                           !.sync_type = "Email Intelligence",
                                           !.start_time = now]
              /\ db_intel = [u \in Users |-> IF u = "u1" THEN row ELSE NoRow]
              /\ db_sync = [j \in Jobs |-> IF j = 1 THEN record ELSE NoJob]
              /\ thread = [j \in Jobs |->
                     IF j = 1
                     THEN [NoThread EXCEPT !.pc = "analyze", !.user_email = "u1",
                                           !.days_back = days_back,
                                           !.sync_type = sync_type,
                                           !.last_sync = last_sync, !.job = record]
                     ELSE NoThread]

WindowNext == \E j \in Jobs : Analyze(j)

WindowSpec == WindowInit /\ [][WindowNext]_vars

\* C12: the window of an incremental sync is the smaller of the configured
\* days_back and the whole days since the last generated_at plus one, and the
\* window of every sync is at most the configured days_back.
C12_LookbackWindow ==
    [][\A j \in Jobs :
          LET t == thread[j]
              w == WindowPassed(thread'[j])
              d == (now - t.last_sync) \div TicksPerDay
          IN  (t.pc = "analyze" /\ thread'[j].pc # "analyze") =>
                /\ w <= t.days_back
                /\ t.sync_type = "incremental" =>
                      /\ w <= d + 1
                      /\ w = t.days_back \/ w = d + 1]_vars

\* An incremental sync one whole day after the last snapshot, configured with
\* three days, has called the analyzer with a window of two days.
C12_Witness ==
    /\ thread[1].pc \in {"merge", "handler"}
    /\ thread[1].sync_type = "incremental"
    /\ thread[1].days_back = 3
    /\ now - thread[1].last_sync = TicksPerDay
    /\ thread[1].actual_days_back = 2


C15_HandoffResetsTracker ==
    [][\A u \in Users :
          session'[u] # session[u] =>
              /\ ~(sync_status'.user_email = u /\ SyncComplete')
              /\ StatusResponse(u)'.redirect = "none"]_vars

\* C16: a sync that ended with an error result is reported to the polling
\* client with its error message, never as finished (progress 100 with the
\* redirect to the insights page).
C16_FailureReported ==
    \A u \in Users :
        (sync_status.user_email = u /\ sync_status.email_insights.status = "error") =>
            /\ sync_status.error # ""
            /\ ~(StatusResponse(u).progress = 100
                   /\ StatusResponse(u).redirect = "/email-insights")

\* The threads this step moves all belong to users other than u.
StepOfOthers(u) ==
    /\ thread' # thread
    /\ \A j \in Jobs : thread'[j] # thread[j] => thread'[j].user_email # u

\* C17: what user u observes through /api/sync-status depends on u's own
\* syncs only: a step of another user's sync leaves u's is_syncing, progress
\* and redirect as they were, and the result a poll hands to u is the result
\* of a sync of u.
C17_NoCrossUserInterference ==
    [][\A u \in Users :
          /\ StepOfOthers(u) => StatusResponse(u)' = StatusResponse(u)
          /\ (session'[u] # session[u] /\ session'[u].email_insights.sync_id # 0)
                => db_sync[session'[u].email_insights.sync_id].user_email = u]_vars

\* C18: when the email source returns an empty email set, the five categories
\* of the analysis are their defaults, and a sync that no refused commit ends
\* returns with its record 'completed' and the defaults stored.
C18_EmptySetGivesDefaults ==
    \A j \in Jobs :
        thread[j].source = "empty" =>
            /\ \A c \in ExpectedKeys : thread[j].insights[c] = DefaultValue(c)
            /\ (thread[j].pc = "returned" /\ thread[j].exc = "none")
                  => db_sync[j].status = "completed"

\* C19: the progress a polling client observes for a sync never decreases
\* while no new sync is requested, and shows every milestone the sync has
\* reached (10 at the start, 30 before the fetch, 50 and 70 after the merge
\* phases, 100 at completion).
C19_ProgressMilestones ==
    [][/\ jobs_started' = jobs_started
            => sync_status'.progress >= sync_status.progress
       /\ \A j \in Jobs :
            (j = jobs_started /\ db_sync'[j].progress # db_sync[j].progress)
                => sync_status'.progress >= db_sync'[j].progress]_vars


(***************************************************************************)
(* intelligence_service.py: the other operations of the service on the     *)
(* stored row, process_email and get_user_insights, and the /email-insights *)
(* page of main.py that reads through get_user_insights.                   *)
(***************************************************************************)
MaxEmails == 1
ServiceJobs == 1

\* The emails handed to process_email: one from a contact whose subject holds
\* an action keyword, one without a sender and without a snippet.
Emails ==
    {[from |-> "jane@x.com", name |-> "Jane", date |-> "d1",
      subject |-> "please reply", action |-> TRUE],
     [from |-> "", name |-> "", date |-> "d2", subject |-> "hello", action |-> FALSE]}

\* The result of get_user_insights for a user without a stored snapshot.
NoData == [status |-> "no_data"]

\* Lines 267-289.  An empty email_insights_cache is the cache whose status
\* is "none"; cached_at is added to the returned dictionary only.
get_user_insights(u) ==
    LET user_intel == db_intel[u]
        insights == user_intel.email_insights_cache
    IN  IF ~user_intel.exists \/ insights.status = "none" THEN NoData
        ELSE IF insights.generated_at # NoTime
             THEN [cached_at |-> insights.generated_at] @@ insights
             ELSE insights

\* main.py 227-258: the page shows the sync in progress, or reads the stored
\* insights and notes their generated_at in the Flask session.
email_insights(u) ==
    LET insights == get_user_insights(u)
    IN  /\ ~(sync_status.user_email = u /\ sync_status.is_syncing)
        /\ insights # NoData
        /\ insights.generated_at # NoTime
        /\ session' = [session EXCEPT ![u].last_email_sync = insights.generated_at]
        /\ session' # session
        /\ UNCHANGED <<sync_status, db_intel, db_sync, thread, jobs_started, now, failures,
                       analyzer_revision, parser_vars>>

\* Lines 409-425: the contacts_knowledge entry of the sender of an email.
EmailContact(contacts_knowledge, email) ==
    IF email.from \notin DOMAIN contacts_knowledge
    THEN [name |-> JStr(email.name), email |-> JStr(email.from),
          first_contact |-> email.date, last_contact |-> email.date,
          email_count |-> 1, topics |-> <<email.subject>>]
    ELSE [contacts_knowledge[email.from] EXCEPT
              !.email_count = @ + 1,
              !.last_contact = email.date,
              !.topics = IF \E i \in DOMAIN @ : @[i] = email.subject
                         THEN @ ELSE Append(@, email.subject)]

\* Lines 441-448.
EmailNotification(tactical_notifications, email) ==
    [id |-> Len(tactical_notifications) + 1, text |-> email.subject,
     source |-> "email", date |-> email.date, priority |-> JStr("medium"),
     email_id |-> ""]

\* Lines 476-495: every contact is brought into key_relationships, updating the
\* first relationship with its email or appending one.  A number stands for
\* every number.
RECURSIVE RelationshipsOf(_, _, _)
RelationshipsOf(rels, contacts_knowledge, keys) ==
    IF keys = {} THEN rels
    ELSE LET email_addr == CHOOSE x \in keys : TRUE
             contact == contacts_knowledge[email_addr]
             last_contact == IF "last_contact" \in DOMAIN contact
                             THEN JStr(contact.last_contact) ELSE JStr("")
             hits == {i \in DOMAIN rels : Get(rels[i], "email") = JStr(email_addr)}
             first == CHOOSE i \in hits : \A k \in hits : i <= k
             updated ==
                 IF hits # {}
                 THEN [rels EXCEPT ![first] =
                          JObj(Put(Put(@.m, "email_count", JNum), "last_contact", last_contact))]
                 ELSE Append(rels,
                          JObj(Put(Put(Put(Put(Put(EmptyMap,
                              "name", contact.name), "email", JStr(email_addr)),
                              "relationship", JStr("Contact")), "email_count", JNum),
                              "last_contact", last_contact)))
         IN  RelationshipsOf(updated, contacts_knowledge, keys \ {email_addr})

\* notification.get('text')
NotificationText(n) == IF "text" \in DOMAIN n THEN JStr(n.text) ELSE JNone

\* Lines 502-518: every notification whose text no action item has is appended.
RECURSIVE ActionItemsOf(_, _)
ActionItemsOf(actions, tactical_notifications) ==
    IF tactical_notifications = <<>> THEN actions
    ELSE LET n == Head(tactical_notifications)
             existing == \E i \in DOMAIN actions : Get(actions[i], "text") = NotificationText(n)
             item == JObj(Put(Put(Put(Put(EmptyMap,
                         "text", IF "text" \in DOMAIN n THEN JStr(n.text) ELSE JStr("")),
                         "due_date", JStr("")),
                         "priority", IF "priority" \in DOMAIN n THEN n.priority
                                     ELSE JStr("medium")),
                         "status", JStr("open")))
         IN  ActionItemsOf(IF existing THEN actions ELSE Append(actions, item),
                           Tail(tactical_notifications))

\* A value the loops of lines 479 and 505 can walk with .get: a list of objects.
ObjectList(v) == v.k = "list" /\ \A i \in DOMAIN v.items : v.items[i].k = "obj"

\* total_emails_processed of a last_email_analysis dictionary.
EmailsProcessed(last_analysis) ==
    IF "total_emails_processed" \in DOMAIN last_analysis
    THEN last_analysis.total_emails_processed ELSE 0

\* Lines 384-529, as one transaction: the row is created when it is missing
\* (commit at 400), then contact, notification, last_email_analysis and
\* email_insights_cache (with a new generated_at) are committed at 522.  An
\* exception reaches the except block, whose traceback.format_exc() raises
\* NameError (the module does not import traceback): the method ends without
\* a rollback call and the closed session drops what was not committed.  The
\* clock is read at line 469; a tick passes with every stored generated_at.
process_email(u, email) ==
    LET stored == db_intel[u]
        has_contact == email.from # "" /\ email.from # u
        KeyError ==
            /\ has_contact
            /\ email.from \in DOMAIN stored.contacts_knowledge
            /\ "email_count" \notin DOMAIN stored.contacts_knowledge[email.from]
        contacts_knowledge ==
            IF has_contact
            THEN Put(stored.contacts_knowledge, email.from,
                     EmailContact(stored.contacts_knowledge, email))
            ELSE stored.contacts_knowledge
        tactical_notifications ==
            IF email.action
            THEN Append(stored.tactical_notifications,
                        EmailNotification(stored.tactical_notifications, email))
            ELSE stored.tactical_notifications
        count == EmailsProcessed(stored.last_email_analysis) + 1
        last_analysis ==
            [last_processed_email_date |-> email.date, total_emails_processed |-> count,
             summary |-> count] @@ stored.last_email_analysis
        cache == stored.email_insights_cache
        AttributeError ==
            \/ DOMAIN contacts_knowledge # {} /\ ~ObjectList(cache.key_relationships)
            \/ tactical_notifications # <<>> /\ ~ObjectList(cache.action_items)
        insights_cache ==
            [cache EXCEPT
                !.status = IF @ = "none" THEN "unset" ELSE @,
                !.generated_at = now',
                !.key_relationships =
                    JList(RelationshipsOf(@.items, contacts_knowledge,
                                          DOMAIN contacts_knowledge)),
                !.action_items = JList(ActionItemsOf(@.items, tactical_notifications))]
        row == [stored EXCEPT !.exists = TRUE,
                              !.contacts_knowledge = contacts_knowledge,
                              !.tactical_notifications = tactical_notifications,
                              !.last_email_analysis = last_analysis,
                              !.email_insights_cache = insights_cache]
    IN  /\ EmailsProcessed(stored.last_email_analysis) < MaxEmails
        /\ \E created \in (IF stored.exists THEN {TRUE} ELSE CommitOutcomes) :
              IF ~created
              THEN /\ failures' = failures + 1
                   /\ UNCHANGED <<db_intel, now>>
              ELSE IF KeyError \/ AttributeError
              THEN /\ db_intel' = [db_intel EXCEPT ![u].exists = TRUE]
                   /\ UNCHANGED <<failures, now>>
              ELSE \E ok \in CommitOutcomes :
                      IF ok
                      THEN /\ now' = now + 1
                           /\ db_intel' = [db_intel EXCEPT ![u] = row]
                           /\ UNCHANGED failures
                      ELSE /\ failures' = failures + 1
                           /\ db_intel' = [db_intel EXCEPT ![u].exists = TRUE]
                           /\ UNCHANGED now
        /\ UNCHANGED <<sync_status, session, db_sync, thread, jobs_started,
                       analyzer_revision, parser_vars>>

\* The service with its three operations; ServiceJobs bounds the sync requests.
ServiceNext ==
    \/ Next /\ jobs_started' <= ServiceJobs
    \/ \E u \in Users, email \in Emails : process_email(u, email)
    \/ \E u \in Users : email_insights(u)

ServiceSpec == Init /\ [][ServiceNext]_vars


(***************************************************************************)
(* Properties of the stored snapshot under ServiceSpec.                    *)
(***************************************************************************)
\* The step commits the final merge of a sync of user u.
CommitsSnapshot(u) ==
    \E j \in Jobs :
        /\ thread[j].user_email = u
        /\ thread[j].pc = "finalize"
        /\ thread'[j].pc = "returned"
        /\ db_sync'[j].status = "completed"

\* C13: the generated_at of a user's stored snapshot changes only in a step
\* that commits the successful merge of a sync of that user; a failed sync, a
\* status poll, a read of the insights and every other operation leave it as
\* it was.
C13_GeneratedAtOnlyByMerge ==
    [][\A u \in Users :
          db_intel'[u].email_insights_cache.generated_at
                # db_intel[u].email_insights_cache.generated_at
              => CommitsSnapshot(u)]_vars

\* The completion times of the syncs of user u that committed a snapshot.
SnapshotTimes(u) ==
    {db_sync[j].completed_at :
        j \in {k \in Jobs : db_sync[k].user_email = u /\ db_sync[k].status = "completed"}}

\* C20: get_user_insights(u) returns 'no_data' exactly when no sync of u has
\* committed a snapshot (also after a first sync that failed), otherwise the
\* snapshot of the latest such commit; the read changes no stored row.
C20_NoDataIffNoSnapshot ==
    [][\A u \in Users :
          /\ (get_user_insights(u) = NoData <=> SnapshotTimes(u) = {})'
          /\ (get_user_insights(u) # NoData =>
                 \A t \in SnapshotTimes(u) : get_user_insights(u).generated_at >= t)'
          /\ (get_user_insights(u) # NoData =>
                 get_user_insights(u).generated_at \in SnapshotTimes(u))'
          /\ email_insights(u) => db_intel' = db_intel /\ db_sync' = db_sync]_vars


(***************************************************************************)
(* Properties of the analysis of unusable answers, under Spec.             *)
(***************************************************************************)
\* The analyzer of thread t got as far as its five LLM calls.
CalledLLM(t) == t.source \in {"fetch_error", "empty", "emails"}

\* C21: when the answer of the LLM is not valid JSON, analyze_recent_emails
\* raises nothing and returns a result whose 'error' field is 'Failed to
\* parse response as JSON' and which holds the raw answer under 'raw_response'.
C21_ParseErrorResult ==
    \A j \in Jobs :
        LET t == thread[j]
        IN  (/\ CalledLLM(t)
             /\ \E c \in ExpectedKeys : ~t.llm[c].raised /\ NotJson(t.llm[c].text))
            => /\ "error" \in DOMAIN t.insights
               /\ "raw_response" \in DOMAIN t.insights
               /\ t.insights.error = "Failed to parse response as JSON"

\* C22: no answer to one category's call aborts the job: the analysis has
\* status 'success', the other four categories hold what their answers
\* carry, no exception of the analysis or of the merge reaches the handler,
\* and a sync that no refused commit ends returns 'completed'.
C22_CategoryFailureNeverAborts ==
    \A j \in Jobs :
        LET t == thread[j]
        IN  CalledLLM(t) =>
              /\ t.insights.status = "success"
              /\ t.exc \in {"none", "PersistenceFailure"}
              /\ (t.pc = "returned" /\ t.exc = "none") => db_sync[j].status = "completed"


(***************************************************************************)
(* Further properties of the response parser, under ParserSpec.            *)
(***************************************************************************)
\* C23: a response that is a JSON object with the expected key followed by
\* further text (a word, a brace) yields that object, the first balanced
\* brace block of the text, not the default.
C23_FirstBalancedBlock ==
    \A v \in KeyedObjects(resp_key), post \in Junk :
        (Answered /\ post # <<>> /\ resp_text.text = json_dumps(v) \o post)
            => resp_out = Returns(v)

\* What the response decodes to: the whole text without its fence markers, or
\* else the stretch the pattern finds.
Decoded(t) ==
    LET cleaned == CleanResponse(t)
        json_match == re_search(cleaned)
    IN  IF json_loads(cleaned).ok THEN json_loads(cleaned)
        ELSE IF json_match.found THEN json_loads(json_match.text)
        ELSE [ok |-> FALSE, val |-> JNum]

\* C24: when the response decodes to a JSON object without the expected key,
\* the parser returns that object with the expected key added and set to the
\* category's default, every other key as it was, and raises nothing.
C24_MissingKeyGetsDefault ==
    LET d == Decoded(resp_text.text)
    IN  (Answered /\ d.ok /\ d.val.k = "obj" /\ resp_key \notin DOMAIN d.val.m)
            => /\ resp_out.exc = "none"
               /\ resp_out.ret.k = "obj"
               /\ DOMAIN resp_out.ret.m = DOMAIN d.val.m \cup {resp_key}
               /\ resp_out.ret.m[resp_key] = DefaultValue(resp_key)
               /\ \A k \in DOMAIN d.val.m : resp_out.ret.m[k] = d.val.m[k]

\* An object with another key only went through the parser for the patterns.
C24_Witness ==
    /\ Answered
    /\ resp_key = "communication_patterns"
    /\ resp_text.text = json_dumps(Obj1("other", JNum))
    /\ resp_out = Returns(Obj2("other", JNum, "communication_patterns", JObj(EmptyMap)))


(***************************************************************************)
(* Properties of the stored notifications and knowledge maps, under Spec.  *)
(***************************************************************************)
\* The status the spec gives a stored notification: 'pending' unless the
\* analyzer marked the action item completed.
KeptStatus(action) ==
    IF Get(action, "status") = JStr("completed") THEN "completed" ELSE "pending"

ContactKeys(items) ==
    {ContactKey(items[i]) : i \in {n \in DOMAIN items : items[n].k = "obj"}}
ProjectKeys(items) ==
    {ProjectKey(items[i]) : i \in {n \in DOMAIN items : items[n].k = "obj"}}

\* The threads of user u that this step moves.
Moving(u) == {j \in Jobs : thread[j].user_email = u /\ thread'[j] # thread[j]}

run_sync(j) ==
    \/ Begin(j) \/ Progress30(j) \/ Analyze(j) \/ MarkFailed(j)
    \/ MergeContactsStep(j) \/ CommitContacts(j) \/ MergeBusinessStep(j)
    \/ CommitBusiness(j) \/ Finalize(j) \/ Handler(j)
    \/ RunSyncReturn(j) \/ RunSyncExcept(j)

LiveSpec == Spec /\ \A j \in Jobs : WF_vars(run_sync(j))

\* C27: every started sync ends: its thread finishes without an exception
\* reaching run_sync, its record is 'completed' or 'failed', and the tracker
\* no longer reports is_syncing for it.
C27_EverySyncResolves ==
    \A j \in Jobs :
        (thread[j].pc = "begin") ~>
            (/\ thread[j].pc = "done"
             /\ db_sync[j].status \in {"completed", "failed"}
             /\ ~(sync_status.is_syncing /\ jobs_started = j))


(***************************************************************************)
(* Properties of the tracker of main.py under overlapping syncs, under     *)
(* Spec.                                                                   *)
(***************************************************************************)
\* C28: whenever the tracker reports is_syncing false with progress 100, the
\* sync started last (the one the tracker was created for) has finished, and
\* the result the tracker holds is not the result of an earlier sync.
C28_CompletionOfLatestSync ==
    (SyncComplete /\ jobs_started > 0) =>
        /\ thread[jobs_started].pc = "done"
        /\ sync_status.email_insights.sync_id \in {0, jobs_started}

(***************************************************************************)
(* fixed_main.py: /sync-emails with its is_syncing guard, run_sync and     *)
(* /api/sync-status.  The tracker is the module-level dictionary of lines  *)
(* 20-26; the guard is read by the request, the flag is set by the thread. *)
(***************************************************************************)
FixedInitialStatus ==
    [is_syncing |-> FALSE, progress |-> 0, user_email |-> "", sync_type |-> "",
     last_sync |-> NoTime]

FixedInit ==
    /\ sync_status = FixedInitialStatus
    /\ session = [u \in Users |-> NoSession]
    /\ db_intel = [u \in Users |-> NoRow]
    /\ db_sync = [j \in Jobs |-> NoJob]
    /\ thread = [j \in Jobs |-> NoThread]
    /\ jobs_started = 0
    /\ now = 0
    /\ failures = 0
    /\ analyzer_revision = "src"
    /\ ParserIdle

\* Lines 326-336: the guard, and Thread(target=run_sync).start().  A request
\* that finds is_syncing set is answered 400 and changes nothing.
fixed_sync_emails(u) ==
    /\ jobs_started < MaxJobs
    /\ ~sync_status.is_syncing
    /\ jobs_started' = jobs_started + 1
    /\ now' = now + 1
    /\ thread' = [thread EXCEPT ![jobs_started + 1] =
           [NoThread EXCEPT !.pc = "start", !.user_email = u,
                            !.days_back = DefaultDaysBack]]
    /\ UNCHANGED <<sync_status, session, db_intel, db_sync, failures, analyzer_revision,
                   parser_vars>>

\* Lines 277-281: the first statements of the thread.
FixedStart(j) ==
    /\ thread[j].pc = "start"
    /\ sync_status' = [sync_status EXCEPT !.is_syncing = TRUE, !.progress = 0,
                                          !.user_email = thread[j].user_email,
                                          !.sync_type = "Email Intelligence"]
    /\ thread' = [thread EXCEPT ![j].pc = "to10"]
    /\ UNCHANGED <<session, db_intel, db_sync, jobs_started, now, failures,
                   analyzer_revision, parser_vars>>

\* The progress the thread writes at each position, and the position after.
FixedMilestone ==
    [to10 |-> 10, to30 |-> 30, to60 |-> 60, to80 |-> 80, to90 |-> 90, to100 |-> 100]
FixedAfter ==
    [to10 |-> "to30", to30 |-> "to60", to60 |-> "to80", to80 |-> "to90",
     to90 |-> "to100", to100 |-> "finally"]
\* The positions reached through a statement that may raise: the import and
\* the construction of the analyzer, scan_urgent_emails, identify_key_contacts
\* (analyze_recent_emails catches what it raises).
FixedCalls == {"to10", "to90", "to100"}

\* Lines 283-318: the import, the milestones and the calls between them.  At
\* 100 the thread stores last_sync, and its write to the Flask session raises
\* outside of a request; every exception is logged and dropped (320-321).
FixedProgress(j) ==
    LET pc == thread[j].pc
    IN  /\ pc \in DOMAIN FixedMilestone
        /\ \E raised \in (IF pc \in FixedCalls THEN BOOLEAN ELSE {FALSE}) :
              IF raised
              THEN /\ thread' = [thread EXCEPT ![j].pc = "finally"]
                   /\ UNCHANGED sync_status
              ELSE /\ thread' = [thread EXCEPT ![j].pc = FixedAfter[pc]]
                   /\ sync_status' =
                          [sync_status EXCEPT
                              !.progress = FixedMilestone[pc],
                              !.last_sync = IF pc = "to100" THEN now ELSE @]
        /\ UNCHANGED <<session, db_intel, db_sync, jobs_started, now, failures,
                       analyzer_revision, parser_vars>>

\* Lines 322-324.
FixedFinally(j) ==
    /\ thread[j].pc = "finally"
    /\ sync_status' = [sync_status EXCEPT !.is_syncing = FALSE]
    /\ thread' = [thread EXCEPT ![j] = Finished(thread[j])]
    /\ UNCHANGED <<session, db_intel, db_sync, jobs_started, now, failures,
                   analyzer_revision, parser_vars>>

\* Lines 340-359: the poll that finds the sync complete resets the progress.
get_sync_status ==
    /\ ~sync_status.is_syncing
    /\ sync_status.progress = 100
    /\ sync_status' = [sync_status EXCEPT !.progress = 0]
    /\ UNCHANGED <<session, db_intel, db_sync, thread, jobs_started, now, failures,
                   analyzer_revision, parser_vars>>

FixedNext ==
    \/ \E u \in Users : fixed_sync_emails(u)
    \/ \E j \in Jobs : FixedStart(j)
    \/ \E j \in Jobs : FixedProgress(j)
    \/ \E j \in Jobs : FixedFinally(j)
    \/ get_sync_status

FixedSpec == FixedInit /\ [][FixedNext]_vars

\* C29: with the is_syncing guard of fixed_main.py at most one background
\* sync thread is running at any time.
C29_GuardAdmitsOneThread ==
    Cardinality({j \in Jobs : thread[j].pc \notin {"idle", "done"}}) <= 1


(***************************************************************************)
(* The lookback window once more, under WindowSpec.                        *)
(***************************************************************************)
\* C30: the lookback window passed to the email source is at least one day
\* in every sync, for every stored days_back and every last generated_at.
C30_WindowAtLeastOneDay ==
    [][\A j \in Jobs :
          (thread[j].pc = "analyze" /\ thread'[j].pc = "merge")
              => WindowPassed(thread'[j]) >= 1]_vars

====
